---- MODULE Spec2Model ----
(***************************************************************************)
(* Model of the timeline backend (src/backend/src/main.rs): the events     *)
(* table and the five handlers get_events, get_event, create_event,        *)
(* update_event and delete_event.                                          *)
(*                                                                         *)
(* Conventions                                                             *)
(*   - Option<T> is a sequence of length 0 (None) or 1 (Some(v)).          *)
(*   - A String is a sequence of one-character strings.                    *)
(*   - A NaiveDateTime is a natural number; chrono::Utc::now() reads the   *)
(*     variable clock, which the Tick step advances and never turns back.  *)
(*   - A Uuid is a natural number; uuid::Uuid::new_v4() yields a value     *)
(*     that was never issued before.                                       *)
(*   - Every handler is one atomic step: it issues at most one statement   *)
(*     that changes the table.  The store fails only on the statement it   *)
(*     is given (malformed text, negative OFFSET), never on its own.       *)
(*   - page, limit and offset are i32: the multiplication that overflows   *)
(*     panics or wraps, depending on the build.                            *)
(***************************************************************************)
EXTENDS Integers, Sequences, FiniteSets, TLC

VARIABLES events, issued, deleted, pristine, clock, resp

vars == <<events, issued, deleted, pristine, clock, resp>>

(***************************************************************************)
(* Bounds                                                                  *)
(***************************************************************************)
MaxEvents == 2
MaxClock == 2

(***************************************************************************)
(* Option<T>                                                               *)
(***************************************************************************)
None == <<>>

Some(v) == <<v>>

IsSome(o) == Len(o) = 1

Unwrap(o) == o[1]

UnwrapOr(o, d) == IF IsSome(o) THEN o[1] ELSE d

(***************************************************************************)
(* Values the requests are drawn from                                      *)
(***************************************************************************)
Ids == 1..(MaxEvents + 1)

TitleA == <<"A", "b">>

TitleB == <<"c">>

DescB == <<"b">>

EmptyString == <<>>

Columns == <<"title", "description", "start_date", "end_date",
             "location", "image_url", "category">>

OptColumns == {"description", "end_date", "location", "image_url", "category"}

AllColumns == {Columns[i] : i \in 1..Len(Columns)}

\* struct EventCreate: title and start_date are plain, the rest are Options.
\* One input with an empty title and nothing optional, one whose title
\* matches the search text, one with every optional field present.
CreateInputs ==
  { [title |-> EmptyString, description |-> None, start_date |-> 3,
     end_date |-> None, location |-> None, image_url |-> None,
     category |-> None],
    [title |-> TitleA, description |-> Some(DescB), start_date |-> 1,
     end_date |-> None, location |-> None, image_url |-> None,
     category |-> None],
    [title |-> TitleB, description |-> Some(<<"x", "A">>), start_date |-> 3,
     end_date |-> Some(4), location |-> Some(<<"x">>),
     image_url |-> Some(<<"y">>), category |-> Some(<<"z">>)] }

\* The value a patch carries for each column when the column is present.
PatchValue ==
  [title |-> <<"n">>, description |-> <<"a">>, start_date |-> 2,
   end_date |-> 5, location |-> <<"p">>, image_url |-> <<"q">>,
   category |-> <<"r">>]

PatchOf(S) == [c \in AllColumns |-> IF c \in S THEN Some(PatchValue[c]) ELSE None]

\* struct EventUpdate: every field is an Option.  The empty patch, the seven
\* one-field patches, a two-field patch, the seven six-field patches and the
\* full patch.
Patches ==
  { PatchOf({}) } \cup { PatchOf({c}) : c \in AllColumns }
    \cup { PatchOf({"title", "category"}) }
    \cup { PatchOf(AllColumns \ {c}) : c \in AllColumns }
    \cup { PatchOf(AllColumns) }

PresentFields(payload) == {c \in AllColumns : IsSome(payload[c])}

(***************************************************************************)
(* HTTP outcomes                                                           *)
(***************************************************************************)
OK == "200 OK"

NOT_FOUND == "404 NOT_FOUND"

INTERNAL_SERVER_ERROR == "500 INTERNAL_SERVER_ERROR"

\* The handler panicked (index out of bounds): no response is produced.
PANIC == "panic"

NoResp ==
  [op |-> "none", id |-> None, payload |-> None, filter |-> None,
   status |-> "none", body |-> None, data |-> <<>>, total |-> None,
   page |-> None, limit |-> None, pages |-> None, offset |-> None,
   query |-> <<>>, params |-> <<>>]

\* No response is waiting to be written back: the next request is taken.
Idle == resp = NoResp

\* The router writes the handler's result back to the client.
Deliver ==
  /\ ~Idle
  /\ resp' = NoResp
  /\ UNCHANGED <<events, issued, deleted, pristine, clock>>

(***************************************************************************)
(* create_event                                                            *)
(***************************************************************************)
RangeOf(s) == {s[i] : i \in 1..Len(s)}

\* uuid::Uuid::new_v4(): a value no earlier call returned.
new_v4(given) ==
  CHOOSE i \in Ids : /\ i \notin RangeOf(given)
                     /\ \A j \in Ids : j \notin RangeOf(given) => i <= j

\* InsertRow with the location and image_url arguments in each other's place.
InsertRow_SwappedArgs(id, payload, now) ==
  [id |-> id, title |-> payload.title, description |-> payload.description,
   start_date |-> payload.start_date, end_date |-> payload.end_date,
   location |-> payload.image_url, image_url |-> payload.location,
   category |-> payload.category, created_at |-> now, updated_at |-> now]

\* INSERT INTO events (...) VALUES ($1, ..., $10) RETURNING *
InsertRow(id, payload, now) ==
  [id |-> id, title |-> payload.title, description |-> payload.description,
   start_date |-> payload.start_date, end_date |-> payload.end_date,
   location |-> payload.location, image_url |-> payload.image_url,
   category |-> payload.category, created_at |-> now, updated_at |-> now]

WithRow(table, id, row) ==
  [i \in DOMAIN table \cup {id} |-> IF i = id THEN row ELSE table[i]]

WithoutRow(table, id) == [i \in DOMAIN table \ {id} |-> table[i]]

create_event(payload) ==
  /\ Idle
  /\ Len(issued) < MaxEvents
  /\ LET id == new_v4(issued)
         now == clock
         event == InsertRow(id, payload, now)
     IN /\ events' = WithRow(events, id, event)
        /\ issued' = Append(issued, id)
        /\ pristine' = WithRow(pristine, id, payload)
        /\ resp' = [NoResp EXCEPT !.op = "create", !.payload = Some(payload),
                                  !.status = OK, !.body = Some(event)]
  /\ UNCHANGED <<deleted, clock>>

(***************************************************************************)
(* get_event                                                               *)
(***************************************************************************)
\* fetch_one(...).map_err(|_| StatusCode::NOT_FOUND)
get_event_result(table, id) ==
  IF id \in DOMAIN table
    THEN [status |-> OK, body |-> Some(table[id])]
    ELSE [status |-> NOT_FOUND, body |-> None]

get_event(id) ==
  /\ Idle
  /\ LET r == get_event_result(events, id)
     IN resp' = [NoResp EXCEPT !.op = "get", !.id = Some(id),
                               !.status = r.status, !.body = r.body]
  /\ UNCHANGED <<events, issued, deleted, pristine, clock>>

(***************************************************************************)
(* update_event                                                            *)
(***************************************************************************)
\* The placeholder each assignment clause names in the statement text.
PlaceholderOf ==
  [title |-> 2, description |-> 3, start_date |-> 4, end_date |-> 5,
   location |-> 6, image_url |-> 7, category |-> 8]

\* " WHERE id = $9 RETURNING *"
WherePlaceholder == 9

\* .bind(&params[0]) ... .bind(&params[8])
UpdateBinds == 9

\* The indexes, in the fixed field order, of the fields the payload carries.
PresentIndexes(payload) ==
  SelectSeq(<<1, 2, 3, 4, 5, 6, 7>>, LAMBDA i : IsSome(payload[Columns[i]]))

\* The assignment clauses appended to "UPDATE events SET updated_at = $1".
UpdateSets(payload) ==
  LET idx == PresentIndexes(payload)
  IN [k \in 1..Len(idx) |->
        [col |-> Columns[idx[k]], ph |-> PlaceholderOf[Columns[idx[k]]]]]

\* params: now, then each present value in field order, then the id.
UpdateParams(id, payload, now) ==
  LET idx == PresentIndexes(payload)
  IN <<now>> \o [k \in 1..Len(idx) |-> Unwrap(payload[Columns[idx[k]]])]
            \o <<id>>

\* params[0] .. params[n-1] all exist; otherwise the indexing panics.
BindsInRange(params, n) == n <= Len(params)

\* A value bound to a nullable column is stored as Some(value).
ColumnValue(col, v) == IF col \in OptColumns THEN Some(v) ELSE v

\* UpdateRow with "created_at = $1" among the assignments as well.
UpdateRow_SetsCreatedAt(row, sets, params) ==
  [c \in DOMAIN row |->
     IF c \in {"updated_at", "created_at"} THEN params[1]
     ELSE IF \E k \in 1..Len(sets) : sets[k].col = c
       THEN LET k == CHOOSE k \in 1..Len(sets) : sets[k].col = c
            IN ColumnValue(c, params[sets[k].ph])
       ELSE row[c]]

\* UPDATE events SET updated_at = $1 {, col = $ph} applied to one row.
UpdateRow(row, sets, params) ==
  [c \in DOMAIN row |->
     IF c = "updated_at" THEN params[1]
     ELSE IF \E k \in 1..Len(sets) : sets[k].col = c
       THEN LET k == CHOOSE k \in 1..Len(sets) : sets[k].col = c
            IN ColumnValue(c, params[sets[k].ph])
       ELSE row[c]]

\* The outcome of update_event: the status, the body and the table afterwards.
update_event_result(table, id, payload, now) ==
  LET sets == UpdateSets(payload)
      params == UpdateParams(id, payload, now)
  IN IF ~BindsInRange(params, UpdateBinds)
       THEN [status |-> PANIC, body |-> None, table |-> table]
     ELSE IF params[WherePlaceholder] \notin DOMAIN table
       \* fetch_one finds no row: map_err(|_| INTERNAL_SERVER_ERROR)
       THEN [status |-> INTERNAL_SERVER_ERROR, body |-> None, table |-> table]
     ELSE LET target == params[WherePlaceholder]
              row == UpdateRow(table[target], sets, params)
          IN [status |-> OK, body |-> Some(row),
              table |-> WithRow(table, target, row)]

update_event(id, payload) ==
  /\ Idle
  /\ LET r == update_event_result(events, id, payload, clock)
     IN /\ events' = r.table
        /\ pristine' = IF r.status = OK THEN WithoutRow(pristine, id)
                                        ELSE pristine
        /\ resp' = [NoResp EXCEPT !.op = "update", !.id = Some(id),
                                  !.payload = Some(payload),
                                  !.status = r.status, !.body = r.body]
  /\ UNCHANGED <<issued, deleted, clock>>

(***************************************************************************)
(* delete_event                                                            *)
(***************************************************************************)
\* DeleteRow with a WHERE clause that matches no row.
DeleteRow_MatchesNothing(table, id) == table

\* DELETE FROM events WHERE id = $1
DeleteRow(table, id) == WithoutRow(table, id)

delete_event(id) ==
  /\ Idle
  /\ events' = DeleteRow(events, id)
  /\ deleted' = IF id \in DOMAIN events THEN deleted \cup {id} ELSE deleted
  /\ pristine' = WithoutRow(pristine, id)
  /\ resp' = [NoResp EXCEPT !.op = "delete", !.id = Some(id), !.status = OK]
  /\ UNCHANGED <<issued, clock>>

(***************************************************************************)
(* get_events                                                              *)
(***************************************************************************)
DefaultPage == 1

DefaultLimit == 20

MinLimit == 1

MaxLimit == 100

\* .bind(params[0].clone()) ... .bind(params[4].clone())
ListBinds == 5

Max(a, b) == IF a >= b THEN a ELSE b

Min(a, b) == IF a <= b THEN a ELSE b

Clamp(v, lo, hi) == IF v < lo THEN lo ELSE IF v > hi THEN hi ELSE v

\* let page = page.unwrap_or(1).max(1);
EffectivePage(filter) == Max(UnwrapOr(filter.page, DefaultPage), 1)

\* let limit = limit.unwrap_or(20).clamp(1, 100);
EffectiveLimit(filter) ==
  Clamp(UnwrapOr(filter.limit, DefaultLimit), MinLimit, MaxLimit)

\* i32::MAX: page, limit and offset are i32.
I32Max == 2147483647

I32Min == -I32Max - 1

Half == 65536

\* a * b does not fit an i32 (a >= 0, b >= 1, as page - 1 and limit are).
MulOverflows(a, b) == a > I32Max \div b

\* a * b as a release build computes it for i32 operands a >= 0, b >= 1:
\* the low 32 bits of the product read as a signed number (worked out on
\* 16-bit halves, so that no intermediate value leaves the i32 range).
WrappingMul(a, b) ==
  LET low == (a % Half) * b
      lo == low % Half
      hi == ((a \div Half) * b + low \div Half) % Half
  IN IF hi >= Half \div 2 THEN (hi - Half) * Half + lo ELSE hi * Half + lo

\* let offset = (page - 1) * limit;  (the value when the multiplication
\* does not panic)
Offset(page, limit) == WrappingMul(page - 1, limit)

\* if let (Some(start), Some(end)) = (&start_date, &end_date)
BothDates(filter) == IsSome(filter.start_date) /\ IsSome(filter.end_date)

\* The clauses appended to "SELECT * FROM events", each with the keyword
\* that introduces it and the placeholders its text names; the fixed
\* ORDER BY start_date DESC stands between the predicates and LIMIT.
ListQuery(filter) ==
  (IF IsSome(filter.search)
     THEN << [kw |-> "WHERE", pred |-> "search", ph |-> <<1, 1>>] >>
     ELSE << >>)
  \o (IF BothDates(filter)
        THEN << [kw |-> "AND", pred |-> "date", ph |-> <<2, 3>>] >>
        ELSE << >>)
  \o << [kw |-> "LIMIT", pred |-> "limit", ph |-> <<4>>],
        [kw |-> "OFFSET", pred |-> "offset", ph |-> <<5>>] >>

\* format!("%{}%", search)
SearchPattern(search) == <<"%">> \o search \o <<"%">>

\* The values pushed onto params, in the order they are pushed.  (The code
\* pushes the text of each value; the store reads it back as the value.)
ListParams(filter, limit, offset) ==
  (IF IsSome(filter.search)
     THEN << SearchPattern(Unwrap(filter.search)) >> ELSE << >>)
  \o (IF BothDates(filter)
        THEN << Unwrap(filter.start_date), Unwrap(filter.end_date) >>
        ELSE << >>)
  \o << limit, offset >>

LowerChar(c) ==
  CASE c = "A" -> "a" [] c = "B" -> "b" [] c = "C" -> "c" [] OTHER -> c

\* text contains s, ignoring case.
ContainsNoCase(text, s) ==
  \E i \in 0..(Len(text) - Len(s)) :
    \A k \in 1..Len(s) : LowerChar(text[i + k]) = LowerChar(s[k])

\* text ILIKE pattern, for patterns of the form %s% and for plain text.
ILike(text, pattern) ==
  LET n == Len(pattern)
  IN IF n >= 2 /\ pattern[1] = "%" /\ pattern[n] = "%"
       THEN ContainsNoCase(text, SubSeq(pattern, 2, n - 1))
       ELSE /\ Len(text) = n
            /\ \A k \in 1..n : LowerChar(text[k]) = LowerChar(pattern[k])

ClausesOf(query, pred) ==
  SelectSeq(query, LAMBDA cl : cl.pred = pred)

\* The statement text is not SQL: an AND with no WHERE before it.
Malformed(query) ==
  \E i \in 1..Len(query) :
    /\ query[i].kw = "AND"
    /\ ~\E j \in 1..(i - 1) : query[j].kw = "WHERE"

\* title ILIKE $a OR description ILIKE $b; a NULL description matches nothing.
SearchHolds(row, cl, params) ==
  \/ ILike(row.title, params[cl.ph[1]])
  \/ /\ IsSome(row.description)
     /\ ILike(Unwrap(row.description), params[cl.ph[2]])

\* start_date BETWEEN $a AND $b
DateHolds(row, cl, params) ==
  /\ params[cl.ph[1]] <= row.start_date
  /\ row.start_date <= params[cl.ph[2]]

\* The WHERE condition as SQL reads it: AND binds tighter than OR, so
\* "t ILIKE p OR d ILIKE p AND s BETWEEN a AND b" is t OR (d AND s).
RowSelected(row, query, params) ==
  LET sc == ClausesOf(query, "search")
      dc == ClausesOf(query, "date")
  IN IF Len(sc) = 0 /\ Len(dc) = 0 THEN TRUE
     ELSE IF Len(dc) = 0 THEN SearchHolds(row, sc[1], params)
     ELSE IF Len(sc) = 0 THEN DateHolds(row, dc[1], params)
     ELSE \/ ILike(row.title, params[sc[1].ph[1]])
          \/ /\ IsSome(row.description)
             /\ ILike(Unwrap(row.description), params[sc[1].ph[2]])
             /\ DateHolds(row, dc[1], params)

Selected(table, query, params) ==
  {i \in DOMAIN table : RowSelected(table[i], query, params)}

\* ORDER BY start_date DESC: every order of the selected rows the store may
\* produce (rows with equal start_date come in any order).
Orderings(table, S) ==
  {o \in [1..Cardinality(S) -> S] :
     /\ \A a, b \in 1..Cardinality(S) : a # b => o[a] # o[b]
     /\ \A a, b \in 1..Cardinality(S) :
          a < b => table[o[a]].start_date >= table[o[b]].start_date}

\* LIMIT limit OFFSET offset
PageOf(rows, limit, offset) ==
  IF offset >= Len(rows) THEN << >>
  ELSE SubSeq(rows, offset + 1, Min(offset + limit, Len(rows)))

\* (total as f64 / limit as f64).ceil() as i32
Pages(total, limit) == (total + limit - 1) \div limit

\* Whether the handler gets as far as a result set.
ListRuns(filter) ==
  LET limit == EffectiveLimit(filter)
      params == ListParams(filter, limit, Offset(EffectivePage(filter), limit))
  IN BindsInRange(params, ListBinds) /\ ~Malformed(ListQuery(filter))

\* The orders the store may return the selected rows in (one, empty, when
\* the handler fails before it has rows).
ListOrders(table, filter) ==
  LET limit == EffectiveLimit(filter)
      params == ListParams(filter, limit, Offset(EffectivePage(filter), limit))
  IN IF ListRuns(filter)
       THEN Orderings(table, Selected(table, ListQuery(filter), params))
       ELSE { << >> }

\* The outcome of get_events when the store returns the rows in order ord.
get_events_result(table, filter, ord) ==
  LET page == EffectivePage(filter)
      limit == EffectiveLimit(filter)
      offset == Offset(page, limit)
      query == ListQuery(filter)
      params == ListParams(filter, limit, offset)
      failed(status) ==
        [status |-> status, data |-> << >>, total |-> None,
         page |-> Some(page), limit |-> Some(limit), pages |-> None,
         offset |-> Some(offset), query |-> query, params |-> params]
  IN IF ~BindsInRange(params, ListBinds) THEN failed(PANIC)
     ELSE IF Malformed(query) THEN failed(INTERNAL_SERVER_ERROR)
     \* the store refuses a negative OFFSET
     ELSE IF params[ClausesOf(query, "offset")[1].ph[1]] < 0
       THEN failed(INTERNAL_SERVER_ERROR)
     ELSE LET lim == params[ClausesOf(query, "limit")[1].ph[1]]
              off == params[ClausesOf(query, "offset")[1].ph[1]]
              rows == PageOf(ord, lim, off)
              total == Cardinality(DOMAIN table)
          IN [status |-> OK,
              data |-> [k \in 1..Len(rows) |-> table[rows[k]]],
              total |-> Some(total), page |-> Some(page),
              limit |-> Some(limit), pages |-> Some(Pages(total, limit)),
              offset |-> Some(offset), query |-> query, params |-> params]

\* The outcome when "(page - 1) * limit" panics (a build with overflow
\* checks): nothing after line 67 runs.
overflow_panic(filter) ==
  [status |-> PANIC, data |-> << >>, total |-> None,
   page |-> Some(EffectivePage(filter)),
   limit |-> Some(EffectiveLimit(filter)), pages |-> None,
   offset |-> None, query |-> << >>, params |-> << >>]

\* The outcomes of get_events: when the multiplication overflows, the panic
\* of a build with overflow checks or the wrapped offset of one without.
get_events_outcomes(table, filter, ord) ==
  IF MulOverflows(EffectivePage(filter) - 1, EffectiveLimit(filter))
    THEN {overflow_panic(filter), get_events_result(table, filter, ord)}
    ELSE {get_events_result(table, filter, ord)}

OptPages == {None, Some(0), Some(2)}

OptLimits == {None, Some(0), Some(2)}

OptSearches == {None, Some(<<"a">>)}

OptStarts == {None, Some(2)}

OptEnds == {None, Some(3)}

Filters ==
  [page : OptPages, limit : OptLimits, search : OptSearches,
   start_date : OptStarts, end_date : OptEnds]

get_events(filter) ==
  /\ Idle
  /\ \E ord \in ListOrders(events, filter) :
       \E r \in get_events_outcomes(events, filter, ord) :
         resp' = [NoResp EXCEPT !.op = "list", !.filter = Some(filter),
                    !.status = r.status, !.data = r.data,
                    !.total = r.total, !.page = r.page, !.limit = r.limit,
                    !.pages = r.pages, !.offset = r.offset,
                    !.query = r.query, !.params = r.params]
  /\ UNCHANGED <<events, issued, deleted, pristine, clock>>

(***************************************************************************)
(* The wall clock                                                          *)
(***************************************************************************)
Tick ==
  /\ Idle
  /\ clock < MaxClock
  /\ clock' = clock + 1
  /\ UNCHANGED <<events, issued, deleted, pristine, resp>>

Init ==
  /\ events = <<>>
  /\ issued = <<>>
  /\ deleted = {}
  /\ pristine = <<>>
  /\ clock = 0
  /\ resp = NoResp

Next ==
  \/ Tick
  \/ Deliver
  \/ \E payload \in CreateInputs : create_event(payload)
  \/ \E id \in Ids : get_event(id)
  \/ \E id \in Ids : delete_event(id)
  \/ \E id \in Ids, payload \in Patches : update_event(id, payload)
  \/ \E filter \in Filters : get_events(filter)

Spec == Init /\ [][Next]_vars

(***************************************************************************)
(* Pagination over the whole i32 range: list requests whose page and limit *)
(* are drawn from the ends and the middle of the range, with no filter or  *)
(* with every filter, on the stores create_event builds.                   *)
(***************************************************************************)
PagingPages ==
  {None, Some(I32Min), Some(-1), Some(0), Some(1), Some(2),
   Some(21474837), Some(21474838), Some(42949674), Some(I32Max)}

PagingLimits ==
  {None, Some(I32Min), Some(-1), Some(0), Some(1), Some(100), Some(101),
   Some(I32Max)}

PagingFilters ==
  [page : PagingPages, limit : PagingLimits, search : {None},
   start_date : {None}, end_date : {None}]
    \cup
  [page : PagingPages, limit : PagingLimits, search : {Some(<<"a">>)},
   start_date : {Some(2)}, end_date : {Some(3)}]

NextPaging ==
  \/ Deliver
  \/ \E payload \in CreateInputs : create_event(payload)
  \/ \E filter \in PagingFilters : get_events(filter)

SpecPaging == Init /\ [][NextPaging]_vars

(***************************************************************************)
(* Properties                                                              *)
(***************************************************************************)
\* The step just taken handled an update request.
UpdateStep == resp'.op = "update"

\* The fields that carry an event's content (all but id and timestamps).
SameContent(row, input) == \A c \in AllColumns : row[c] = input[c]

\* The smallest k with k * d >= n.
CeilDiv(n, d) == CHOOSE k \in 0..n : k * d >= n /\ (k = 0 \/ (k - 1) * d < n)

\* C1: update(id, patch) on a stored event with exactly one field F present
\* succeeds, sets F to the supplied value, refreshes updated_at and leaves
\* every other field of that event and every other stored event unchanged.
C1_SingleFieldUpdate ==
  [][ (/\ UpdateStep
       /\ Unwrap(resp'.id) \in DOMAIN events
       /\ Cardinality(PresentFields(Unwrap(resp'.payload))) = 1)
      => LET id == Unwrap(resp'.id)
             p == Unwrap(resp'.payload)
             F == CHOOSE c \in PresentFields(p) : TRUE
             v == IF F \in OptColumns THEN p[F] ELSE Unwrap(p[F])
         IN /\ resp'.status = OK
            /\ events' = [events EXCEPT
                            ![id] = [@ EXCEPT ![F] = v, !.updated_at = clock]]
    ]_vars

\* C2: update(id, patch) on a stored event with no field present is
\* executed, returns the event, makes updated_at strictly greater and leaves
\* everything else equal.
C2_EmptyPatchUpdate ==
  [][ (/\ UpdateStep
       /\ Unwrap(resp'.id) \in DOMAIN events
       /\ PresentFields(Unwrap(resp'.payload)) = {})
      => LET id == Unwrap(resp'.id)
         IN /\ resp'.status = OK
            /\ id \in DOMAIN events'
            /\ resp'.body = Some(events'[id])
            /\ events'[id].updated_at > events[id].updated_at
            /\ events' = [events EXCEPT
                            ![id].updated_at = events'[id].updated_at]
    ]_vars

\* C3: a list request with no search and no date filter succeeds on a store
\* of N events and returns min(limit, max(0, N - (page-1)*limit)) rows with
\* total = N and pages = ceil(N / limit) (an empty store: no rows, 0, 0).
C3_UnfilteredList ==
  (/\ resp.op = "list"
   /\ Unwrap(resp.filter).search = None
   /\ Unwrap(resp.filter).start_date = None
   /\ Unwrap(resp.filter).end_date = None)
  => LET f == Unwrap(resp.filter)
         N == Cardinality(DOMAIN events)
         page == EffectivePage(f)
         limit == EffectiveLimit(f)
     IN /\ resp.status = OK
        /\ Len(resp.data) = Min(limit, Max(0, N - (page - 1) * limit))
        /\ resp.total = Some(N)
        /\ resp.pages = Some(CeilDiv(N, limit))

\* C4: a list request with both date bounds returns only events whose
\* start_date lies in [start_date, end_date]; a list request with exactly
\* one bound succeeds and returns the rows of the same request without it.
C4_DateRange ==
  resp.op = "list"
  => LET f == Unwrap(resp.filter)
         undated == [f EXCEPT !.start_date = None, !.end_date = None]
     IN /\ BothDates(f)
           => \A k \in 1..Len(resp.data) :
                /\ Unwrap(f.start_date) <= resp.data[k].start_date
                /\ resp.data[k].start_date <= Unwrap(f.end_date)
        /\ (IsSome(f.start_date) # IsSome(f.end_date))
           => /\ resp.status = OK
              /\ \E ord \in ListOrders(events, undated) :
                   LET r == get_events_result(events, undated, ord)
                   IN r.status = OK /\ r.data = resp.data

\* C5: get(id) answers 404 when id was never created or has been deleted,
\* and answers the stored event when id was created and not deleted since.
C5_GetFound ==
  resp.op = "get"
  => LET id == Unwrap(resp.id)
     IN IF id \in RangeOf(issued) /\ id \notin deleted
          THEN /\ id \in DOMAIN events
               /\ resp.status = OK
               /\ resp.body = Some(events[id])
          ELSE /\ resp.status = NOT_FOUND
               /\ resp.body = None

\* A get of an id that was created and then deleted was answered 404.
C5_Witness ==
  /\ resp.op = "get"
  /\ Unwrap(resp.id) \in deleted
  /\ resp.status = NOT_FOUND

\* C6: update(id, patch) on an id that is not stored fails with 404, for
\* every patch, and leaves the store unchanged.
C6_UpdateMissing ==
  [][ (UpdateStep /\ Unwrap(resp'.id) \notin DOMAIN events)
      => (resp'.status = NOT_FOUND /\ events' = events) ]_vars

\* The statuses a ValidationError may be written back as.
ClientErrors == {"400 BAD_REQUEST", "422 UNPROCESSABLE_ENTITY"}

\* C7: create with an empty title fails with a client error and persists
\* nothing.
C7_EmptyTitleRejected ==
  [][ (resp'.op = "create" /\ Unwrap(resp'.payload).title = EmptyString)
      => (resp'.status \in ClientErrors /\ events' = events) ]_vars

\* C8: create then get of the returned id, with no update or delete of that
\* id in between, returns the input's seven fields with created_at equal to
\* updated_at, under an id no earlier create returned.
C8_CreateThenGet ==
  /\ \A i, j \in 1..Len(issued) : i # j => issued[i] # issued[j]
  /\ (/\ resp.op = "get"
      /\ Unwrap(resp.id) \in DOMAIN pristine
      /\ pristine[Unwrap(resp.id)].title # EmptyString)
     => /\ resp.status = OK
        /\ IsSome(resp.body)
        /\ Unwrap(resp.body).id = Unwrap(resp.id)
        /\ SameContent(Unwrap(resp.body), pristine[Unwrap(resp.id)])
        /\ Unwrap(resp.body).created_at = Unwrap(resp.body).updated_at

\* The second event created, with every optional field present, was read
\* back before any update or delete of it.
C8_Witness ==
  /\ resp.op = "get"
  /\ resp.status = OK
  /\ Len(issued) = 2
  /\ Unwrap(resp.id) = issued[2]
  /\ Unwrap(resp.id) \in DOMAIN pristine
  /\ IsSome(pristine[Unwrap(resp.id)].location)

\* C9: every stored event has created_at <= updated_at; a new event gets
\* its id and the current time as created_at, and no later step changes the
\* id or created_at of a stored event.
C9_Timestamps ==
  /\ [](\A i \in DOMAIN events :
          events[i].created_at <= events[i].updated_at)
  /\ [][ /\ \A i \in DOMAIN events' \ DOMAIN events :
              events'[i].id = i /\ events'[i].created_at = clock
         /\ \A i \in DOMAIN events \cap DOMAIN events' :
              /\ events'[i].id = events[i].id
              /\ events'[i].created_at = events[i].created_at ]_vars

\* An update went through on an event created at an earlier time.
C9_Witness ==
  /\ resp.op = "update"
  /\ resp.status = OK
  /\ Unwrap(resp.body).created_at < Unwrap(resp.body).updated_at

\* The placeholders the statement text names.
PlaceholdersOf(query) ==
  UNION { RangeOf(query[i].ph) : i \in 1..Len(query) }

\* C10: the list statement is well formed for every combination of filters:
\* one WHERE at most and no AND without one, placeholders exactly $1..$n
\* for n parameters, each filter clause naming its own value, LIMIT and
\* OFFSET naming the limit and the offset as the last two parameters, and no
\* bind past the end of the parameter list.
C10_ListStatementWellFormed ==
  resp.op = "list"
  => LET f == Unwrap(resp.filter)
         q == resp.query
         ps == resp.params
         n == Len(ps)
         limit == EffectiveLimit(f)
         offset == Offset(EffectivePage(f), limit)
         names(cl, k, v) == cl.ph[k] <= n /\ ps[cl.ph[k]] = v
     IN /\ Cardinality({i \in 1..Len(q) : q[i].kw = "WHERE"}) <= 1
        /\ ~Malformed(q)
        /\ PlaceholdersOf(q) = 1..n
        /\ \A i \in 1..Len(q) :
             /\ q[i].pred = "search"
                => /\ names(q[i], 1, SearchPattern(Unwrap(f.search)))
                   /\ names(q[i], 2, SearchPattern(Unwrap(f.search)))
             /\ q[i].pred = "date"
                => /\ names(q[i], 1, Unwrap(f.start_date))
                   /\ names(q[i], 2, Unwrap(f.end_date))
             /\ q[i].pred = "limit"
                => q[i].ph[1] = n - 1 /\ names(q[i], 1, limit)
             /\ q[i].pred = "offset"
                => q[i].ph[1] = n /\ names(q[i], 1, offset)
        /\ BindsInRange(ps, ListBinds)

\* C11: for every i32 page and limit (absent, zero and negative included)
\* get_events uses a page >= 1 (1 when absent) and a limit in 1..100 (20
\* when absent), and the offset it computes is (page - 1) * limit exactly:
\* non-negative and within the i32 range.
C11_OffsetExact ==
  resp.op = "list"
  => LET f == Unwrap(resp.filter)
     IN /\ IsSome(resp.page) /\ IsSome(resp.limit)
        /\ Unwrap(resp.page) >= 1
        /\ f.page = None => Unwrap(resp.page) = 1
        /\ Unwrap(resp.limit) \in 1..100
        /\ f.limit = None => Unwrap(resp.limit) = 20
        /\ Unwrap(resp.page) - 1 <= I32Max \div Unwrap(resp.limit)
        /\ resp.offset = Some((Unwrap(resp.page) - 1) * Unwrap(resp.limit))
        /\ Unwrap(resp.offset) >= 0

====
